---- MODULE Spec2Model ----
(***************************************************************************)
(* Model of the mmap_alloc character-device driver (src/mmap_alloc.c).     *)
(*                                                                         *)
(* The driver kmalloc()s (NPAGES + 2) pages at module load, rounds the     *)
(* pointer up to a page boundary, registers a character device, marks the  *)
(* NPAGES pages of the window reserved, seeds them with a test pattern,    *)
(* and lets user processes mmap the window through remap_pfn_range().      *)
(*                                                                         *)
(* The state is the driver's static variables, the host resources the      *)
(* driver acquires and releases (allocations, streaming DMA mappings,      *)
(* device region, cdev, PG_reserved marks, user page tables), physical     *)
(* memory at 32-bit word granularity, and the position of the load/unload  *)
(* code.  Addresses are byte addresses.  Memory words are C ints (signed   *)
(* 32-bit, two's complement); arithmetic on them wraps at 32 bits.         *)
(***************************************************************************)
EXTENDS Integers, FiniteSets, Sequences, TLC

(***************************************************************************)
(* Program constants.                                                      *)
(***************************************************************************)
NPAGES == 16
SizeofInt == 4
EIO == 5
ENOMEM == 12
DeadTag == 57005       \* 0xdead
BeefTag == 48879       \* 0xbeef
NULL == 0

(***************************************************************************)
(* Bounds of the model.  PAGE_SHIFT is the architecture's page shift; the  *)
(* driver is written against PAGE_SIZE/PAGE_SHIFT/PAGE_MASK and the model  *)
(* keeps every computation in terms of them, with a small page so that     *)
(* physical memory can be held word by word.  As with 4 KiB pages, the     *)
(* window holds fewer than 2^16 words.                                     *)
(***************************************************************************)
PAGE_SHIFT == 3
NSessions == 2

PAGE_SIZE == 2 ^ PAGE_SHIFT
WordsPerPage == PAGE_SIZE \div SizeofInt
Sessions == 1 .. NSessions

\* x & PAGE_MASK: clear the low PAGE_SHIFT bits.
AndPageMask(x) == x - (x % PAGE_SIZE)
\* x >> PAGE_SHIFT
ShrPageShift(x) == x \div PAGE_SIZE
\* PAGE_ALIGN(x), applied by the host to the length of an mmap request.
PAGE_ALIGN(x) == AndPageMask(x + PAGE_SIZE - 1)

\* Base of the kernel's linear mapping; virt_to_phys subtracts it.
PAGE_OFFSET == 3 * NPAGES * PAGE_SIZE
virt_to_phys(va) == va - PAGE_OFFSET
phys_to_virt(pa) == pa + PAGE_OFFSET
\* virt_to_page: the page frame number holding a kernel virtual address.
virt_to_page(va) == ShrPageShift(virt_to_phys(va))

(***************************************************************************)
(* Physical memory of the model: page frames 0 .. MemPages-1.  kmalloc     *)
(* hands out (NPAGES + 2) pages starting at one of RawAddrs: an address    *)
(* that is page-aligned or one that is not (only int-aligned).  Frame 0 is  *)
(* never part of an allocation; the last frames lie beyond it.             *)
(***************************************************************************)
MemPages == NPAGES + 4
MemWords == MemPages * WordsPerPage
KmallocMinAlign == SizeofInt
RawLen == (NPAGES + 2) * PAGE_SIZE
RawAddrs == { phys_to_virt(PAGE_SIZE), phys_to_virt(PAGE_SIZE + KmallocMinAlign) }

(***************************************************************************)
(* 32-bit integer arithmetic.  A word is a signed 32-bit int; Hi16/Lo16    *)
(* are the halves of its two's-complement representation, so the pair      *)
(* <<Hi16(v), Lo16(v)>> is the word read as an unsigned 32-bit value.      *)
(***************************************************************************)
Half == 65536
Hi16(v) == (v \div Half) % Half
Lo16(v) == v % Half
Int32(hi, lo) == IF hi >= Half \div 2 THEN (hi - Half) * Half + lo ELSE hi * Half + lo
\* x << 16 on int (GCC semantics: the bits shifted out are lost).
Shl16(x) == Int32(Lo16(x), 0)
\* a + b on int, wrapping.
Add32(a, b) ==
    LET lo == Lo16(a) + Lo16(b)
        hi == Hi16(a) + Hi16(b) + (lo \div Half)
    IN  Int32(hi % Half, lo % Half)

(***************************************************************************)
(* Inputs.                                                                 *)
(***************************************************************************)
\* Requests a user passes to mmap(2): <<length in bytes, offset in pages>>.
\* The whole window; one byte more than the window; one page at page
\* offset 1; the whole window's length at page offset 1.
Requests == { << NPAGES * PAGE_SIZE, 0 >>, << NPAGES * PAGE_SIZE + 1, 0 >>,
              << PAGE_SIZE, 1 >>, << NPAGES * PAGE_SIZE, 1 >> }
\* Values a user stores through a mapping, and the word of the mapping it
\* stores to.
UserValues == { 287454020 }     \* 0x11223344
UserWordIdx == { 0 }
\* Content of memory the driver has not written (kmalloc does not zero).
Garbage == -1
\* Return values of the host primitives.
RemapRets == { 0, -ENOMEM, -11 }          \* success, -ENOMEM, -EAGAIN
ChrdevRets == { 0, -ENOMEM, -16 }         \* success, -ENOMEM, -EBUSY
\* Address the host picks for the user mapping of a session.
UserBase(s) == s * 4 * NPAGES * PAGE_SIZE

\* initRet before mmap_alloc_init has returned; << r >> once it returned r
NoRet == << >>
NoMap == [none |-> TRUE]

VARIABLES
    pc,             \* position of the load/unload code
    alloc_ptr,      \* static void *alloc_ptr
    alloc_area,     \* static int *alloc_area
    kmalloced,      \* host: addresses of live kmalloc allocations
    dma_mapped,     \* host: buffers under a streaming DMA mapping (not unmapped)
    chrdev_region,  \* host: the device number region of mmap_dev is allocated
    cdev_live,      \* host: mmap_cdev is added (the device can be opened)
    reserved,       \* host: page frames with PG_reserved set
    mem,            \* physical memory, one int per word
    initRet,        \* value returned by the last mmap_alloc_init
    sess,           \* per session: the open file and the mapping made through it
    last,           \* the last file-operation callback: its return and vma
    userWrote       \* a user stored through a mapping since this load began

vars == << pc, alloc_ptr, alloc_area, kmalloced, dma_mapped, chrdev_region,
           cdev_live, reserved, mem, initRet, sess, last, userWrote >>

hostRes == << kmalloced, dma_mapped, chrdev_region, cdev_live, reserved >>
handle  == << alloc_ptr, alloc_area >>

IdleSession == [ fd |-> FALSE, map |-> NoMap ]

Init ==
    /\ pc = "unloaded"
    /\ alloc_ptr = NULL
    /\ alloc_area = NULL
    /\ kmalloced = {}
    /\ dma_mapped = {}
    /\ chrdev_region = FALSE
    /\ cdev_live = FALSE
    /\ reserved = {}
    /\ mem = [ w \in 0 .. MemWords - 1 |-> Garbage ]
    /\ initRet = NoRet
    /\ sess = [ s \in Sessions |-> IdleSession ]
    /\ last = [ op |-> "none", ret |-> 0 ]
    /\ userWrote = FALSE

(***************************************************************************)
(* mmap_alloc_init, step by step.  A failing step runs the error path to   *)
(* its return in the same step.                                            *)
(***************************************************************************)

\* alloc_ptr = kmalloc((NPAGES + 2) * PAGE_SIZE, ...), kmalloc returning p;
\* NULL -> ret = -ENOMEM; goto out
init_kmalloc(p) ==
    /\ pc = "unloaded"
    /\ userWrote' = FALSE
    /\ alloc_ptr' = p
    /\ IF p = NULL
       THEN /\ initRet' = << -ENOMEM >>
            /\ pc' = "unloaded"
            /\ UNCHANGED kmalloced
       ELSE /\ initRet' = NoRet
            /\ pc' = "i_dma"
            /\ kmalloced' = kmalloced \cup { p }
    /\ UNCHANGED << alloc_area, dma_mapped, chrdev_region, cdev_live, reserved,
                    mem, sess, last >>

\* alloc_ptr rounded down, not up, to a page boundary (the addition of
\* PAGE_SIZE - 1 left out).
RoundUp_down(p) == AndPageMask(p)

\* the address the driver rounds alloc_ptr up to:
\*   (((unsigned long)alloc_ptr) + PAGE_SIZE - 1) & PAGE_MASK
RoundUp(p) == AndPageMask(p + PAGE_SIZE - 1)

\* dma_map_single(NULL, alloc_ptr, ...) returning h;
\* 0 -> ret = -ENOMEM; goto out_vfree (kfree);
\* otherwise alloc_area = alloc_ptr rounded up to a page boundary
init_dma_map(h) ==
    /\ pc = "i_dma"
    /\ IF h = 0
       THEN /\ initRet' = << -ENOMEM >>
            /\ kmalloced' = kmalloced \ { alloc_ptr }
            /\ pc' = "unloaded"
            /\ UNCHANGED << alloc_area, dma_mapped >>
       ELSE /\ dma_mapped' = dma_mapped \cup { alloc_ptr }
            /\ alloc_area' = RoundUp(alloc_ptr)
            /\ pc' = "i_region"
            /\ UNCHANGED << initRet, kmalloced >>
    /\ UNCHANGED << alloc_ptr, chrdev_region, cdev_live, reserved, mem,
                    sess, last, userWrote >>

\* ret = alloc_chrdev_region(&mmap_dev, 0, 1, "mmap_alloc"), returning r;
\* < 0 -> goto out_vfree (kfree)
init_chrdev_region(r) ==
    /\ pc = "i_region"
    /\ IF r < 0
       THEN /\ initRet' = << r >>
            /\ kmalloced' = kmalloced \ { alloc_ptr }
            /\ pc' = "unloaded"
            /\ UNCHANGED chrdev_region
       ELSE /\ chrdev_region' = TRUE
            /\ pc' = "i_cdev"
            /\ UNCHANGED << initRet, kmalloced >>
    /\ UNCHANGED << alloc_ptr, alloc_area, dma_mapped, cdev_live, reserved, mem,
                    sess, last, userWrote >>

\* init_cdev_add returning -ENOMEM, not cdev_add's value, when cdev_add fails.
init_cdev_add_enomem(r) ==
    /\ pc = "i_cdev"
    /\ IF r < 0
       THEN /\ initRet' = << -ENOMEM >>
            /\ chrdev_region' = FALSE
            /\ kmalloced' = kmalloced \ { alloc_ptr }
            /\ pc' = "unloaded"
            /\ UNCHANGED cdev_live
       ELSE /\ cdev_live' = TRUE
            /\ pc' = "i_setup"
            /\ UNCHANGED << initRet, chrdev_region, kmalloced >>
    /\ UNCHANGED << alloc_ptr, alloc_area, dma_mapped, reserved, mem,
                    sess, last, userWrote >>

\* ret = cdev_add(&mmap_cdev, mmap_dev, 1), returning r;
\* < 0 -> goto out_unalloc_region (unregister_chrdev_region, kfree)
init_cdev_add(r) ==
    /\ pc = "i_cdev"
    /\ IF r < 0
       THEN /\ initRet' = << r >>
            /\ chrdev_region' = FALSE
            /\ kmalloced' = kmalloced \ { alloc_ptr }
            /\ pc' = "unloaded"
            /\ UNCHANGED cdev_live
       ELSE /\ cdev_live' = TRUE
            /\ pc' = "i_setup"
            /\ UNCHANGED << initRet, chrdev_region, kmalloced >>
    /\ UNCHANGED << alloc_ptr, alloc_area, dma_mapped, reserved, mem,
                    sess, last, userWrote >>

\* the page frames the reserve / unreserve loops visit
WindowFrames == { virt_to_page(alloc_area + i * PAGE_SIZE) : i \in 0 .. NPAGES - 1 }

\* number of ints the seed loop covers: NPAGES * PAGE_SIZE / sizeof(int)
WindowWords == (NPAGES * PAGE_SIZE) \div SizeofInt

\* the seed loop storing (0xbeef << 16) + i + 1 in the odd words.
SeedValue_odd(j) ==
    IF j % 2 = 0 THEN Add32(Shl16(DeadTag), j)
                 ELSE Add32(Shl16(BeefTag), j)

\* the value the seed loop stores at alloc_area[j]:
\*   alloc_area[i] = (0xdead << 16) + i;  alloc_area[i + 1] = (0xbeef << 16) + i;
SeedValue(j) ==
    IF j % 2 = 0 THEN Add32(Shl16(DeadTag), j)
                 ELSE Add32(Shl16(BeefTag), j - 1)

\* index in mem of the int at alloc_area[j]
AreaWord(j) == (virt_to_phys(alloc_area) \div SizeofInt) + j

\* memory after the seed loop
Seeded ==
    [ w \in 0 .. MemWords - 1 |->
        IF w >= AreaWord(0) /\ w < AreaWord(WindowWords)
        THEN SeedValue(w - AreaWord(0))
        ELSE mem[w] ]

\* the rest of mmap_alloc_init once the device is added: the loop that
\* marks the pages reserved, the loop that stores the pattern, return ret (0)
init_reserve_seed ==
    /\ pc = "i_setup"
    /\ reserved' = reserved \cup WindowFrames
    /\ mem' = Seeded
    /\ initRet' = << 0 >>
    /\ pc' = "loaded"
    /\ UNCHANGED << alloc_ptr, alloc_area, kmalloced, dma_mapped, chrdev_region,
                    cdev_live, sess, last, userWrote >>

mmap_alloc_init ==
    \/ \E p \in RawAddrs \cup { NULL } : init_kmalloc(p)
    \/ \E h \in { 0, virt_to_phys(alloc_ptr) } : init_dma_map(h)
    \/ \E r \in ChrdevRets : init_chrdev_region(r)
    \/ \E r \in ChrdevRets : init_cdev_add(r)
    \/ init_reserve_seed

(***************************************************************************)
(* mmap_alloc_exit.  The host runs it only when the module's use count is  *)
(* zero: no file of the device is open and none is held by a mapping.      *)
(***************************************************************************)
ModuleUnused == \A s \in Sessions : sess[s] = IdleSession

\* mmap_alloc_exit releasing the device region without cdev_del.
exit_cdev_del_forgot ==
    /\ pc = "loaded"
    /\ ModuleUnused
    /\ chrdev_region' = FALSE
    /\ pc' = "x_unreserve"
    /\ UNCHANGED << alloc_ptr, alloc_area, kmalloced, dma_mapped, cdev_live,
                    reserved, mem, initRet, sess, last, userWrote >>

\* cdev_del(&mmap_cdev); unregister_chrdev_region(mmap_dev, 1);
exit_cdev_del ==
    /\ pc = "loaded"
    /\ ModuleUnused
    /\ cdev_live' = FALSE
    /\ chrdev_region' = FALSE
    /\ pc' = "x_unreserve"
    /\ UNCHANGED << alloc_ptr, alloc_area, kmalloced, dma_mapped, reserved, mem,
                    initRet, sess, last, userWrote >>

\* for (...) ClearPageReserved(virt_to_page(((unsigned long)alloc_area) + i));
exit_unreserve ==
    /\ pc = "x_unreserve"
    /\ reserved' = reserved \ WindowFrames
    /\ pc' = "x_free"
    /\ UNCHANGED << alloc_ptr, alloc_area, kmalloced, dma_mapped, chrdev_region,
                    cdev_live, mem, initRet, sess, last, userWrote >>

\* kfree(alloc_ptr);
exit_kfree ==
    /\ pc = "x_free"
    /\ kmalloced' = kmalloced \ { alloc_ptr }
    /\ pc' = "unloaded"
    /\ UNCHANGED << alloc_ptr, alloc_area, dma_mapped, chrdev_region, cdev_live,
                    reserved, mem, initRet, sess, last, userWrote >>

mmap_alloc_exit ==
    \/ exit_cdev_del
    \/ exit_unreserve
    \/ exit_kfree

(***************************************************************************)
(* The file operations.                                                    *)
(***************************************************************************)

\* mmap_open refusing a second simultaneous open with -EBUSY.
mmap_open_exclusive == IF \E t \in Sessions : sess[t].fd THEN -16 ELSE 0

\* mmap_open: printk; return 0
mmap_open == 0

\* mmap_release: printk; return 0
mmap_release == 0

\* mmap_kmem taking the frames from a region of its own for each user
\* address range (the first frame depends on vma->vm_start).
mmap_kmem_private(vma, remap_ret) ==
    LET length == vma.vm_end - vma.vm_start
    IN  IF length > NPAGES * PAGE_SIZE
        THEN [ ret |-> -EIO, called |-> FALSE, vma |-> vma,
               addr |-> 0, pfn |-> 0, size |-> 0, prot |-> vma.vm_page_prot ]
        ELSE [ ret |-> IF remap_ret < 0 THEN remap_ret ELSE 0,
               called |-> TRUE, vma |-> vma,
               addr |-> vma.vm_start,
               pfn |-> ShrPageShift(virt_to_phys(alloc_area))
                         + (vma.vm_start \div (4 * NPAGES * PAGE_SIZE)) - 1,
               size |-> length,
               prot |-> vma.vm_page_prot ]

\* mmap_kmem passing the frame of alloc_ptr, the pointer before rounding.
mmap_kmem_rawptr(vma, remap_ret) ==
    LET length == vma.vm_end - vma.vm_start
    IN  IF length > NPAGES * PAGE_SIZE
        THEN [ ret |-> -EIO, called |-> FALSE, vma |-> vma,
               addr |-> 0, pfn |-> 0, size |-> 0, prot |-> vma.vm_page_prot ]
        ELSE [ ret |-> IF remap_ret < 0 THEN remap_ret ELSE 0,
               called |-> TRUE, vma |-> vma,
               addr |-> vma.vm_start,
               pfn |-> ShrPageShift(virt_to_phys(alloc_ptr)),
               size |-> length,
               prot |-> vma.vm_page_prot ]

\* mmap_kmem returning -EIO, not remap_pfn_range's value, when the remap fails.
mmap_kmem_eio(vma, remap_ret) ==
    LET length == vma.vm_end - vma.vm_start
    IN  IF length > NPAGES * PAGE_SIZE
        THEN [ ret |-> -EIO, called |-> FALSE, vma |-> vma,
               addr |-> 0, pfn |-> 0, size |-> 0, prot |-> vma.vm_page_prot ]
        ELSE [ ret |-> IF remap_ret < 0 THEN -EIO ELSE 0,
               called |-> TRUE, vma |-> vma,
               addr |-> vma.vm_start,
               pfn |-> ShrPageShift(virt_to_phys(alloc_area)),
               size |-> length,
               prot |-> vma.vm_page_prot ]

\* mmap_kmem applying the page offset of the request to the first frame,
\* with no check of the offset against the window.
mmap_kmem_pgoff(vma, remap_ret) ==
    LET length == vma.vm_end - vma.vm_start
    IN  IF length > NPAGES * PAGE_SIZE
        THEN [ ret |-> -EIO, called |-> FALSE, vma |-> vma,
               addr |-> 0, pfn |-> 0, size |-> 0, prot |-> vma.vm_page_prot ]
        ELSE [ ret |-> IF remap_ret < 0 THEN remap_ret ELSE 0,
               called |-> TRUE, vma |-> vma,
               addr |-> vma.vm_start,
               pfn |-> ShrPageShift(virt_to_phys(alloc_area)) + vma.vm_pgoff,
               size |-> length,
               prot |-> vma.vm_page_prot ]

\* mmap_kmem with the length check off by one (>= for >).
mmap_kmem_ge(vma, remap_ret) ==
    LET length == vma.vm_end - vma.vm_start
    IN  IF length >= NPAGES * PAGE_SIZE
        THEN [ ret |-> -EIO, called |-> FALSE, vma |-> vma,
               addr |-> 0, pfn |-> 0, size |-> 0, prot |-> vma.vm_page_prot ]
        ELSE [ ret |-> IF remap_ret < 0 THEN remap_ret ELSE 0,
               called |-> TRUE, vma |-> vma,
               addr |-> vma.vm_start,
               pfn |-> ShrPageShift(virt_to_phys(alloc_area)),
               size |-> length,
               prot |-> vma.vm_page_prot ]

\* mmap_kmem changing the vma's attributes before it calls remap_pfn_range.
mmap_kmem_setattr(vma, remap_ret) ==
    LET length == vma.vm_end - vma.vm_start
        nvma == [ vma EXCEPT !.vm_page_prot = "noncached",
                             !.vm_flags = @ \cup {"VM_IO"} ]
    IN  IF length > NPAGES * PAGE_SIZE
        THEN [ ret |-> -EIO, called |-> FALSE, vma |-> vma,
               addr |-> 0, pfn |-> 0, size |-> 0, prot |-> vma.vm_page_prot ]
        ELSE [ ret |-> IF remap_ret < 0 THEN remap_ret ELSE 0,
               called |-> TRUE, vma |-> nvma,
               addr |-> vma.vm_start,
               pfn |-> ShrPageShift(virt_to_phys(alloc_area)),
               size |-> length,
               prot |-> nvma.vm_page_prot ]

\* mmap_kmem(filp, vma), given what remap_pfn_range returns if it is called.
\* The result is the return value, whether remap_pfn_range was called and
\* with which arguments, and the vma as the function leaves it.
mmap_kmem(vma, remap_ret) ==
    LET length == vma.vm_end - vma.vm_start
    IN  IF length > NPAGES * PAGE_SIZE
        THEN [ ret |-> -EIO, called |-> FALSE, vma |-> vma,
               addr |-> 0, pfn |-> 0, size |-> 0, prot |-> vma.vm_page_prot ]
        ELSE [ ret |-> IF remap_ret < 0 THEN remap_ret ELSE 0,
               called |-> TRUE, vma |-> vma,
               addr |-> vma.vm_start,
               pfn |-> ShrPageShift(virt_to_phys(alloc_area)),
               size |-> length,
               prot |-> vma.vm_page_prot ]

\* open(2) on the device node: the host calls mmap_open; the file is open if
\* the callback returns 0.
sys_open(s) ==
    /\ cdev_live
    /\ sess[s] = IdleSession
    /\ sess' = [ sess EXCEPT ![s].fd = (mmap_open = 0) ]
    /\ last' = [ op |-> "open", ret |-> mmap_open ]
    /\ UNCHANGED << pc, handle, hostRes, mem, initRet, userWrote >>

\* close(2): the host calls mmap_release when the last reference to the file
\* goes; a mapping holds a reference of its own.
sys_close(s) ==
    /\ sess[s].fd
    /\ sess' = [ sess EXCEPT ![s].fd = FALSE ]
    /\ last' = IF sess[s].map = NoMap
               THEN [ op |-> "release", ret |-> mmap_release ]
               ELSE last
    /\ UNCHANGED << pc, handle, hostRes, mem, initRet, userWrote >>

\* the vma the host builds for mmap(fd, len, offset = pgoff * PAGE_SIZE) of
\* session s before it calls the driver
HostProt == "cached"
HostFlags == { "VM_READ", "VM_WRITE", "VM_SHARED" }
HostVma(s, len, pgoff) ==
    [ vm_start |-> UserBase(s),
      vm_end |-> UserBase(s) + PAGE_ALIGN(len),
      vm_pgoff |-> pgoff,
      vm_page_prot |-> HostProt,
      vm_flags |-> HostFlags ]

\* mmap_mmap handing each caller the next piece of the buffer: a successful
\* map advances alloc_area by the length mapped.
mmap_mmap_bump(s, len, pgoff, rr) ==
    LET r == mmap_kmem(HostVma(s, len, pgoff), rr)
        ok == r.called /\ rr = 0 /\ r.ret = 0
    IN  /\ sess[s].fd
        /\ sess[s].map = NoMap
        /\ sess' = [ sess EXCEPT ![s].map =
                       IF ok
                       THEN [ vm_start |-> r.addr, size |-> r.size,
                              pfn |-> r.pfn, prot |-> r.prot,
                              vm_flags |-> r.vma.vm_flags,
                              vm_pgoff |-> r.vma.vm_pgoff ]
                       ELSE NoMap ]
        /\ last' = [ op |-> "mmap", ret |-> r.ret, called |-> r.called,
                     vm_page_prot |-> r.vma.vm_page_prot,
                     vm_flags |-> r.vma.vm_flags ]
        /\ alloc_area' = IF ok THEN alloc_area + r.size ELSE alloc_area
        /\ UNCHANGED << pc, alloc_ptr, hostRes, mem, initRet, userWrote >>

\* mmap_mmap(filp, vma) -> mmap_kmem, for the request (len, pgoff) of session
\* s, with remap_pfn_range returning rr if it is called.  remap_pfn_range,
\* when it succeeds, installs size bytes of page-table entries at addr, the
\* first one for page frame pfn, with protection prot.  When the callback
\* fails the host discards the vma.
mmap_mmap(s, len, pgoff, rr) ==
    LET r == mmap_kmem(HostVma(s, len, pgoff), rr)
    IN  /\ sess[s].fd
        /\ sess[s].map = NoMap
        /\ sess' = [ sess EXCEPT ![s].map =
                       IF r.called /\ rr = 0 /\ r.ret = 0
                       THEN [ vm_start |-> r.addr, size |-> r.size,
                              pfn |-> r.pfn, prot |-> r.prot,
                              vm_flags |-> r.vma.vm_flags,
                              vm_pgoff |-> r.vma.vm_pgoff ]
                       ELSE NoMap ]
        /\ last' = [ op |-> "mmap", ret |-> r.ret, called |-> r.called,
                     vm_page_prot |-> r.vma.vm_page_prot,
                     vm_flags |-> r.vma.vm_flags ]
        /\ UNCHANGED << pc, handle, hostRes, mem, initRet, userWrote >>

\* mmap(2) on an open file of the device
sys_mmap(s) ==
    \E rq \in Requests, rr \in RemapRets :
        mmap_mmap(s, rq[1], rq[2], rr)

\* munmap(2) or process exit: the host removes the mapping; if the file was
\* already closed this drops its last reference and mmap_release runs.
sys_munmap(s) ==
    /\ sess[s].map # NoMap
    /\ sess' = [ sess EXCEPT ![s].map = NoMap ]
    /\ last' = IF sess[s].fd
               THEN last
               ELSE [ op |-> "release", ret |-> mmap_release ]
    /\ UNCHANGED << pc, handle, hostRes, mem, initRet, userWrote >>

(***************************************************************************)
(* User accesses through an installed mapping.                             *)
(***************************************************************************)
\* index in mem of word w of mapping m
MapWord(m, w) == m.pfn * WordsPerPage + w

\* what a user reads at word w of mapping m
UserRead(m, w) == mem[MapWord(m, w)]

\* the page-table entries remap_pfn_range installed for mapping m: the i-th
\* page of the user range refers to page frame pfn + i
PageTable(m) == [ i \in 0 .. (m.size \div PAGE_SIZE) - 1 |-> m.pfn + i ]

\* the physical address behind byte offset k of mapping m
MapPhys(m, k) == PageTable(m)[k \div PAGE_SIZE] * PAGE_SIZE + (k % PAGE_SIZE)

\* a user stores v at word w of the mapping of session s
UserWrite(s) ==
    /\ sess[s].map # NoMap
    /\ \E w \in UserWordIdx, v \in UserValues :
        /\ w * SizeofInt < sess[s].map.size
        /\ MapWord(sess[s].map, w) \in DOMAIN mem
        /\ mem' = [ mem EXCEPT ![MapWord(sess[s].map, w)] = v ]
    /\ userWrote' = TRUE
    /\ UNCHANGED << pc, handle, hostRes, initRet, sess, last >>

Next ==
    \/ mmap_alloc_init
    \/ mmap_alloc_exit
    \/ \E s \in Sessions : sys_open(s)
    \/ \E s \in Sessions : sys_close(s)
    \/ \E s \in Sessions : sys_mmap(s)
    \/ \E s \in Sessions : sys_munmap(s)
    \/ \E s \in Sessions : UserWrite(s)

Spec == Init /\ [][Next]_vars

(***************************************************************************)
(* Properties.                                                             *)
(***************************************************************************)
\* the byte length of the usable window
WindowLen == NPAGES * PAGE_SIZE

\* the window (vm_end - vm_start) of the vma the host builds for a request
WindowOf(s, rq) == HostVma(s, rq[1], rq[2]).vm_end - HostVma(s, rq[1], rq[2]).vm_start

\* the results of mmap_kmem in the current state, over every request of
\* every session and every return of remap_pfn_range
KmemCases ==
    { [ window |-> WindowOf(s, rq), rr |-> rr,
        vma |-> HostVma(s, rq[1], rq[2]),
        r |-> mmap_kmem(HostVma(s, rq[1], rq[2]), rr) ] :
      s \in Sessions, rq \in Requests, rr \in RemapRets }

\* C1 - Size bound of map: a request whose window exceeds NPAGES * PAGE_SIZE
\* returns -EIO without remap_pfn_range being called; a request whose window
\* is at most NPAGES * PAGE_SIZE, with remap_pfn_range succeeding, returns 0;
\* and a recorded return of -EIO goes with no call of remap_pfn_range.
C1_SizeBound ==
    /\ \A c \in KmemCases :
         /\ c.window > WindowLen => (c.r.ret = -EIO /\ ~c.r.called)
         /\ (c.window <= WindowLen /\ c.rr = 0) => (c.r.ret = 0 /\ c.r.called)
    /\ (last.op = "mmap" /\ last.ret = -EIO) => ~last.called
    /\ \A s \in Sessions : sess[s].map # NoMap => sess[s].map.size <= WindowLen

\* C1 witness: a map of exactly NPAGES * PAGE_SIZE bytes is installed and the
\* last map request, one byte longer, has returned -EIO.
C1_Witness ==
    /\ last.op = "mmap"
    /\ last.ret = -EIO
    /\ \E s \in Sessions :
         /\ sess[s].map # NoMap
         /\ sess[s].map.size = WindowLen

\* C2 - A failed map mutates no state: when map returns an error, the
\* installed mappings, the vma's attributes, alloc_ptr, alloc_area, the host
\* resources and memory are as before the call, and a map of
\* NPAGES * PAGE_SIZE bytes, with remap_pfn_range succeeding, then returns 0.
C2_FailedMapNoChange ==
    [][ (last' # last /\ last'.op = "mmap" /\ last'.ret < 0) =>
          /\ sess' = sess
          /\ last'.vm_page_prot = HostProt
          /\ last'.vm_flags = HostFlags
          /\ handle' = handle
          /\ hostRes' = hostRes
          /\ mem' = mem
          /\ \A s \in Sessions :
               (mmap_kmem(HostVma(s, WindowLen, 0), 0).ret = 0)' ]_vars

\* C2 witness: the last map call failed in remap_pfn_range while one session
\* holds a mapping and another has the device open without one.
C2_Witness ==
    /\ last.op = "mmap"
    /\ last.ret < 0
    /\ last.called
    /\ \E s \in Sessions : sess[s].map # NoMap
    /\ \E s \in Sessions : sess[s].fd /\ sess[s].map = NoMap

\* the page frame number of the window's first page, PFN(pa)
WindowPfn == ShrPageShift(virt_to_phys(alloc_area))

\* a mapping that lies within the window at its page offset
Permitted(m) ==
    /\ m.vm_pgoff >= 0
    /\ m.vm_pgoff < NPAGES
    /\ m.vm_pgoff * PAGE_SIZE + m.size <= WindowLen

\* C3 - Page offset on the remap path: with the module loaded, a mapping
\* made at page offset p within the window has PFN(pa) + p as its first
\* frame, so that word k of the mapping is word p * PAGE_SIZE / 4 + k of the
\* window, and word 0 of a mapping at offset 1 of the freshly seeded window
\* is 0xDEAD0000 | (PAGE_SIZE / 4).
C3_PageOffsetHonoured ==
    \A s \in Sessions :
      (pc = "loaded" /\ sess[s].map # NoMap /\ Permitted(sess[s].map)) =>
        /\ sess[s].map.pfn = WindowPfn + sess[s].map.vm_pgoff
        /\ \A k \in 0 .. (sess[s].map.size \div SizeofInt) - 1 :
             UserRead(sess[s].map, k) =
               mem[AreaWord(sess[s].map.vm_pgoff * WordsPerPage + k)]
        /\ ~userWrote =>
             /\ Hi16(UserRead(sess[s].map, 0)) = DeadTag
             /\ Lo16(UserRead(sess[s].map, 0)) = sess[s].map.vm_pgoff * WordsPerPage

\* C4 - Permitted offsets: with the module loaded, every granted map has
\* 0 <= page_offset < NPAGES and
\* page_offset * PAGE_SIZE + window <= NPAGES * PAGE_SIZE.
C4_PermittedOffsets ==
    \A s \in Sessions :
      (pc = "loaded" /\ sess[s].map # NoMap) => Permitted(sess[s].map)

\* word i of the window, read as unsigned 32 bits, is tag << 16 | low
WordIs(i, tag, low) ==
    /\ Hi16(mem[AreaWord(i)]) = tag
    /\ Lo16(mem[AreaWord(i)]) = low

\* the window holds the seed pattern:
\* word[i] = 0xDEAD0000 | (i & 0xFFFF), word[i+1] = 0xBEEF0000 | (i & 0xFFFF)
PatternInWindow ==
    \A i \in 0 .. WindowWords - 1 :
      i % 2 = 0 => /\ WordIs(i, DeadTag, i % Half)
                   /\ WordIs(i + 1, BeefTag, i % Half)

\* a mapping of the whole window at page offset 0 reads the seed pattern
PatternThrough(m) ==
    \A i \in 0 .. WindowWords - 1 :
      i % 2 = 0 => /\ Hi16(UserRead(m, i)) = DeadTag
                   /\ Lo16(UserRead(m, i)) = i % Half
                   /\ Hi16(UserRead(m, i + 1)) = BeefTag
                   /\ Lo16(UserRead(m, i + 1)) = i % Half

\* C5 - Pattern integrity: once init has returned 0 and while no user has
\* stored through a mapping, the window holds the seed pattern, and a mapping
\* of the whole window at page offset 0 reads it.
C5_PatternIntegrity ==
    (pc = "loaded" /\ ~userWrote) =>
      /\ PatternInWindow
      /\ \A s \in Sessions :
           (sess[s].map # NoMap /\ sess[s].map.size = WindowLen
              /\ sess[s].map.vm_pgoff = 0) => PatternThrough(sess[s].map)

\* C5 witness: the module is loaded, no user has stored, and a session maps
\* the whole window at page offset 0.
C5_Witness ==
    /\ pc = "loaded"
    /\ ~userWrote
    /\ \E s \in Sessions :
         /\ sess[s].map # NoMap
         /\ sess[s].map.size = WindowLen
         /\ sess[s].map.vm_pgoff = 0

\* nothing the module acquires is outstanding
NothingHeld ==
    /\ kmalloced = {}
    /\ dma_mapped = {}
    /\ reserved = {}
    /\ ~chrdev_region
    /\ ~cdev_live

\* C6 - Init unwinds completely on failure: when init has returned an error,
\* no allocation, no DMA mapping, no reserved page, no device region and no
\* character device is outstanding.
C6_InitUnwinds ==
    (pc = "unloaded" /\ initRet # NoRet /\ initRet # << 0 >>) => NothingHeld

\* C7 - Init error codes: init returns -ENOMEM when kmalloc or
\* dma_map_single fails, and the value alloc_chrdev_region or cdev_add
\* returned when that call fails; in each case the device is not registered
\* when init returns.
C7_InitErrorCodes ==
    [][ /\ init_kmalloc(NULL) =>
             (initRet' = << -ENOMEM >> /\ pc' = "unloaded" /\ ~cdev_live')
        /\ init_dma_map(0) =>
             (initRet' = << -ENOMEM >> /\ pc' = "unloaded" /\ ~cdev_live')
        /\ \A r \in ChrdevRets :
             /\ (r < 0 /\ init_chrdev_region(r)) =>
                  (initRet' = << r >> /\ pc' = "unloaded" /\ ~cdev_live')
             /\ (r < 0 /\ init_cdev_add(r)) =>
                  (initRet' = << r >> /\ pc' = "unloaded" /\ ~cdev_live')
        /\ (pc' = "unloaded" /\ initRet' # NoRet /\ initRet' # << 0 >>) =>
             (~cdev_live' /\ \A s \in Sessions : ~ENABLED sys_open(s))
      ]_vars

\* C7 witness: init has returned -EBUSY, the value a registration call
\* returned, and the device is not registered.
C7_Witness ==
    /\ pc = "unloaded"
    /\ initRet = << -16 >>
    /\ ~cdev_live

\* C8 - Idempotent teardown: after an exit that follows a successful init
\* nothing the module acquired is outstanding, and after each successful
\* init, before any user store, the window holds the seed pattern.
C8_IdempotentTeardown ==
    /\ (pc = "unloaded" /\ initRet = << 0 >>) => NothingHeld
    /\ (pc = "loaded" /\ ~userWrote) => PatternInWindow

\* the state open and release may not change
SharedState == << alloc_ptr, alloc_area, kmalloced, dma_mapped, chrdev_region,
                  cdev_live, reserved, mem >>

\* C9 - No per-session state: every open and every release returns 0, with
\* any number of sessions open, and changes neither alloc_ptr, alloc_area,
\* the reserved marks, the other host resources, memory nor the mappings that
\* stay installed.
C9_NoSessionState ==
    [][ /\ (last' # last /\ last'.op \in { "open", "release" }) => last'.ret = 0
        /\ \A s \in Sessions :
             /\ (cdev_live /\ sess[s] = IdleSession /\ sess'[s] # sess[s]) =>
                  /\ sess'[s].fd
                  /\ last' = [ op |-> "open", ret |-> 0 ]
             /\ (sess'[s].fd # sess[s].fd) =>
                  /\ SharedState' = SharedState
                  /\ \A t \in Sessions : sess'[t].map = sess[t].map
                  /\ (~sess'[s].fd /\ sess[s].map = NoMap) =>
                       last' = [ op |-> "release", ret |-> 0 ]
             /\ (~sess[s].fd /\ sess[s].map # NoMap /\ sess'[s].map = NoMap) =>
                  /\ SharedState' = SharedState
                  /\ last' = [ op |-> "release", ret |-> 0 ]
                  /\ \A t \in Sessions \ {s} : sess'[t].map = sess[t].map
      ]_vars

\* C9 witness: every session has the device open at once, one of them with
\* a mapping, and the last callback was an open.
C9_Witness ==
    /\ \A s \in Sessions : sess[s].fd
    /\ \E s \in Sessions : sess[s].map # NoMap
    /\ last = [ op |-> "open", ret |-> 0 ]

\* C10 - Non-cached user mappings: with the module loaded, every installed
\* mapping has non-cached page protection and a vma marked VM_IO, and the
\* vma carries both when remap_pfn_range is called.
C10_NonCached ==
    pc = "loaded" =>
    /\ \A s \in Sessions :
         sess[s].map # NoMap =>
           /\ sess[s].map.prot = "noncached"
           /\ "VM_IO" \in sess[s].map.vm_flags
    /\ (last.op = "mmap" /\ last.called) =>
           /\ last.vm_page_prot = "noncached"
           /\ "VM_IO" \in last.vm_flags

\* two sessions that both hold a mapping made at the same page offset
SameOffsets(s, t) ==
    /\ s # t
    /\ sess[s].map # NoMap
    /\ sess[t].map # NoMap
    /\ sess[s].map.vm_pgoff = sess[t].map.vm_pgoff

\* the number of ints both mappings cover
CommonWords(m, n) ==
    (IF m.size <= n.size THEN m.size ELSE n.size) \div SizeofInt

\* C11 - Shared visibility: two mappings of the same offsets made through
\* two different opens have the same page frames, so that every word read
\* through one is the word read through the other, a word a user stored
\* through either included.
C11_SharedVisibility ==
    \A s, t \in Sessions :
      SameOffsets(s, t) =>
        /\ sess[s].map.pfn = sess[t].map.pfn
        /\ \A w \in 0 .. CommonWords(sess[s].map, sess[t].map) - 1 :
             UserRead(sess[s].map, w) = UserRead(sess[t].map, w)

\* C11 witness: two sessions map the same offsets, a user has stored
\* 0x11223344 through a mapping, and both read it back at that word.
C11_Witness ==
    /\ userWrote
    /\ \E s, t \in Sessions :
         /\ SameOffsets(s, t)
         /\ \E w \in UserWordIdx, v \in UserValues :
              /\ UserRead(sess[s].map, w) = v
              /\ UserRead(sess[t].map, w) = v

\* byte offsets of mapping m: the first and the last byte, the bytes on
\* either side of the first page boundary and of the middle of the mapping
FarOffsets(m) ==
    { 0, PAGE_SIZE - 1, m.size \div 2, m.size - 1 }
      \cup { k \in { PAGE_SIZE, (m.size \div 2) - 1 } : k >= 0 /\ k < m.size }

\* C12 - Physical contiguity and base: within a mapping the physical
\* addresses behind two offsets a, b differ by b - a; a mapping at page
\* offset 0 starts at the physical address of alloc_area, which is not that
\* of alloc_ptr when kmalloc returned an address that is not page-aligned,
\* and its first and last words are the first and last ints of its length
\* from alloc_area.
C12_ContiguousFromKva ==
    \A s \in Sessions :
      sess[s].map # NoMap =>
        /\ \A a, b \in FarOffsets(sess[s].map) :
             MapPhys(sess[s].map, b) - MapPhys(sess[s].map, a) = b - a
        /\ sess[s].map.vm_pgoff = 0 =>
             /\ MapPhys(sess[s].map, 0) = virt_to_phys(alloc_area)
             /\ alloc_ptr % PAGE_SIZE # 0 =>
                  MapPhys(sess[s].map, 0) # virt_to_phys(alloc_ptr)
             /\ \A w \in { 0, (sess[s].map.size \div SizeofInt) - 1 } :
                  UserRead(sess[s].map, w) = mem[AreaWord(w)]

\* C12 witness: kmalloc returned an address that is not page-aligned and a
\* session maps the whole window at page offset 0.
C12_Witness ==
    /\ pc = "loaded"
    /\ alloc_ptr % PAGE_SIZE # 0
    /\ \E s \in Sessions :
         /\ sess[s].map # NoMap
         /\ sess[s].map.vm_pgoff = 0
         /\ sess[s].map.size = WindowLen

\* init has done all of its steps on the buffer: the allocation is held and
\* under its DMA mapping, alloc_area is alloc_ptr rounded up, every page of
\* the window is reserved, and the window holds the pattern unless a user
\* has stored into it
Prepared ==
    /\ alloc_ptr \in kmalloced
    /\ alloc_ptr \in dma_mapped
    /\ alloc_area = RoundUp(alloc_ptr)
    /\ WindowFrames \subseteq reserved
    /\ ~userWrote => PatternInWindow

\* C13 - Init happens-before any open, map or release: the device can be
\* opened only once init has done all of its steps, and whenever a session
\* has the device open or holds a mapping the buffer is fully prepared, so
\* that no mapping reads an unseeded window.
C13_InitBeforeCallbacks ==
    /\ cdev_live => Prepared
    /\ \A s \in Sessions :
         (sess[s].fd \/ sess[s].map # NoMap) => Prepared
    /\ \A s \in Sessions :
         (sess[s].map # NoMap /\ sess[s].map.size > 0 /\ ~userWrote) =>
            Hi16(UserRead(sess[s].map, 0)) = DeadTag

\* C14 - Pages stay reserved while mapped: whenever a mapping installed by
\* map exists the allocation is held and every page of the window is marked
\* reserved; and the reserved marks are those of the NPAGES pages of the
\* window only.
C14_ReservedWhileMapped ==
    /\ \A s \in Sessions :
         sess[s].map # NoMap =>
           /\ alloc_ptr \in kmalloced
           /\ WindowFrames \subseteq reserved
    /\ reserved # {} => (reserved = WindowFrames /\ Cardinality(reserved) = NPAGES)

\* C15 - Exit ordering: exit removes the device and its region, then clears
\* the reserved marks of the window, then frees the buffer; the device is
\* never registered while the buffer is freed or while exit has unreserved
\* the pages; each step of exit runs whatever the state, and after exit the
\* device, the region, the marks and the allocation are all released.
C15_ExitOrdering ==
    /\ pc \in { "x_unreserve", "x_free" } => (~cdev_live /\ ~chrdev_region)
    /\ pc = "x_unreserve" =>
         (alloc_ptr \in kmalloced /\ WindowFrames \subseteq reserved)
    /\ pc = "x_free" =>
         (alloc_ptr \in kmalloced /\ reserved \cap WindowFrames = {})
    /\ cdev_live => alloc_ptr \in kmalloced
    /\ (cdev_live /\ pc # "i_setup") => WindowFrames \subseteq reserved
    /\ (pc = "loaded" /\ ModuleUnused) => ENABLED exit_cdev_del
    /\ pc = "x_unreserve" => ENABLED exit_unreserve
    /\ pc = "x_free" => ENABLED exit_kfree
    /\ (pc = "unloaded" /\ initRet = << 0 >>) =>
         (~cdev_live /\ ~chrdev_region /\ reserved = {} /\ kmalloced = {})

\* C15 witness: exit has removed the device and cleared the reserved marks
\* and is about to free the buffer, which is still allocated.
C15_Witness ==
    /\ pc = "x_free"
    /\ ~cdev_live
    /\ ~chrdev_region
    /\ reserved = {}
    /\ alloc_ptr \in kmalloced

\* addresses kmalloc can return, every offset within a page among them
CandidateRaws == { phys_to_virt(PAGE_SIZE + d) : d \in 0 .. 2 * PAGE_SIZE - 1 }

\* the geometry of the window that alloc_ptr = raw gives
GeometryOf(raw) ==
    LET kva == RoundUp(raw)
    IN  /\ kva % PAGE_SIZE = 0
        /\ raw <= kva
        /\ kva < raw + PAGE_SIZE
        /\ \A q \in raw .. kva - 1 : q % PAGE_SIZE # 0
        /\ WindowLen <= RawLen
        /\ kva + WindowLen <= raw + RawLen

\* the page frames that hold a byte of [alloc_area, alloc_area + len)
FramesOfWindow ==
    { f \in 0 .. MemPages - 1 :
        /\ f * PAGE_SIZE + PAGE_SIZE > virt_to_phys(alloc_area)
        /\ f * PAGE_SIZE < virt_to_phys(alloc_area) + WindowLen }

\* the words of memory that lie in [alloc_area, alloc_area + len)
InWindow(w) ==
    /\ w * SizeofInt >= virt_to_phys(alloc_area)
    /\ w * SizeofInt + SizeofInt <= virt_to_phys(alloc_area) + WindowLen

\* the geometry holds of the buffer the module holds
GeometryHolds ==
    /\ \A raw \in CandidateRaws : GeometryOf(raw)
    /\ pc \in { "i_region", "i_cdev", "i_setup", "loaded", "x_unreserve", "x_free" } =>
         /\ alloc_area = RoundUp(alloc_ptr)
         /\ GeometryOf(alloc_ptr)
         /\ WindowFrames = FramesOfWindow
         /\ Cardinality(WindowFrames) = NPAGES
         /\ reserved \subseteq FramesOfWindow

\* a step of init or exit sets or clears reserved marks of pages of the
\* window only, and stores to words of the window only
LoopsInWindow ==
    pc' # pc =>
      /\ (reserved' \ reserved) \cup (reserved \ reserved') \subseteq FramesOfWindow
      /\ \A w \in DOMAIN mem : mem'[w] # mem[w] => InWindow(w)

\* C16 - Buffer geometry: whatever address kmalloc returned, alloc_area is
\* page-aligned, is the first page-aligned address >= alloc_ptr, and the
\* window of NPAGES * PAGE_SIZE bytes from it lies inside the allocation of
\* (NPAGES + 2) * PAGE_SIZE bytes; the reserve loop, the seed loop and the
\* unreserve loop touch only pages and words of the window.
C16_Geometry == []GeometryHolds /\ [][LoopsInWindow]_vars

\* C16 witness: after an init in which kmalloc returned an address that is
\* not page-aligned, alloc_area lies above alloc_ptr, the pages of the window
\* are reserved and the window is seeded.
C16_Witness ==
    /\ pc = "loaded"
    /\ alloc_ptr % PAGE_SIZE # 0
    /\ alloc_area > alloc_ptr
    /\ reserved = FramesOfWindow
    /\ PatternInWindow

\* C17 - Remap failure is propagated unchanged: for every request a session
\* with the device open can make, when remap_pfn_range is called and returns
\* a negative code, map returns that code; map returns 0 only when
\* remap_pfn_range was called and returned 0, and then it does; and the last
\* map call returned 0, -EIO from the size check, or remap_pfn_range's code.
C17_RemapErrorPropagated ==
    /\ \A s \in Sessions :
         sess[s].fd =>
           \A rq \in Requests, rr \in RemapRets :
             LET r == mmap_kmem(HostVma(s, rq[1], rq[2]), rr)
             IN  /\ (r.called /\ rr < 0) => r.ret = rr
                 /\ r.ret = 0 => (r.called /\ rr = 0)
                 /\ (r.called /\ rr = 0) => r.ret = 0
    /\ last.op = "mmap" =>
         /\ last.ret \in RemapRets \cup { -EIO }
         /\ last.ret = 0 => last.called
         /\ (last.called /\ last.ret < 0) => last.ret \in RemapRets

\* C17 witness: the last map call reached remap_pfn_range, which failed with
\* -EAGAIN, and returned -EAGAIN.
C17_Witness ==
    /\ last.op = "mmap"
    /\ last.called
    /\ last.ret = -11

\* the mapping a map call of session s for request rq installs when it is the
\* only call made: it depends on the request and on alloc_area alone
SoloMap(s, rq) ==
    LET r == mmap_kmem(HostVma(s, rq[1], rq[2]), 0)
    IN  [ vm_start |-> r.addr, size |-> r.size, pfn |-> r.pfn, prot |-> r.prot,
          vm_flags |-> r.vma.vm_flags, vm_pgoff |-> r.vma.vm_pgoff ]

\* every installed mapping is the one its request gives when served alone
SerialResults ==
    \A s \in Sessions :
      sess[s].map # NoMap => \E rq \in Requests : sess[s].map = SoloMap(s, rq)

\* alloc_ptr and alloc_area change in steps of init only, and a map call
\* changes neither them, nor memory, nor the reserved marks, nor the mapping
\* of another session
MapOnlyReads ==
    /\ handle' # handle =>
         /\ pc \in { "unloaded", "i_dma" }
         /\ sess' = sess
         /\ last' = last
    /\ (last' # last /\ last'.op = "mmap") =>
         /\ handle' = handle
         /\ mem' = mem
         /\ hostRes' = hostRes
         /\ \A s \in Sessions :
              sess'[s] # sess[s] => \A t \in Sessions \ {s} : sess'[t] = sess[t]

\* C19 - Map is a pure reader of shared state: alloc_ptr and alloc_area are
\* written by init only; map writes neither them, nor the buffer, nor the
\* reserved marks; and however the map calls of different sessions are
\* ordered, each installs the frames it installs when it runs alone.
C19_MapPureReader == []SerialResults /\ [][MapOnlyReads]_vars

\* C19 witness: two sessions hold mappings of different sizes, the second of
\* them installed by the last callback.
C19_Witness ==
    /\ last.op = "mmap"
    /\ last.ret = 0
    /\ \E s, t \in Sessions :
         /\ sess[s].map # NoMap
         /\ sess[t].map # NoMap
         /\ sess[s].map.size < sess[t].map.size

\* the page frames mapping m refers to
MapFrames(m) == { PageTable(m)[i] : i \in DOMAIN PageTable(m) }

\* the page frames that lie wholly in the allocation
\* [alloc_ptr, alloc_ptr + (NPAGES + 2) * PAGE_SIZE)
FramesOfAllocation ==
    { f \in 0 .. MemPages - 1 :
        /\ f * PAGE_SIZE >= virt_to_phys(alloc_ptr)
        /\ f * PAGE_SIZE + PAGE_SIZE <= virt_to_phys(alloc_ptr) + RawLen }

\* C20 - No mapping escapes the buffer: every page frame of every installed
\* mapping, whatever the window and the page offset of its request, is one
\* of the NPAGES frames of [alloc_area, alloc_area + NPAGES * PAGE_SIZE), and
\* lies in the allocation.
C20_NoEscape ==
    \A s \in Sessions :
      sess[s].map # NoMap =>
        /\ MapFrames(sess[s].map) \subseteq FramesOfWindow
        /\ MapFrames(sess[s].map) \subseteq WindowFrames
        /\ MapFrames(sess[s].map) \subseteq FramesOfAllocation

\* C20 witness: a request for the whole window's length at page offset 1 was
\* granted, with kmalloc's address not page-aligned.
C20_Witness ==
    /\ alloc_ptr % PAGE_SIZE # 0
    /\ \E s \in Sessions :
         /\ sess[s].map # NoMap
         /\ sess[s].map.vm_pgoff = 1
         /\ sess[s].map.size = WindowLen

TypeOK ==
    /\ pc \in { "unloaded", "i_dma", "i_region", "i_cdev", "i_setup",
                "loaded", "x_unreserve", "x_free" }
    /\ dma_mapped \subseteq RawAddrs

====
